---------------------------- MODULE Spec2Model ----------------------------
(***************************************************************************)
(* usb_camera_mic_spk/main/main.c as a state machine.                      *)
(*                                                                         *)
(* Tasks: app_main (start-up, then the speaker playback loop), the capture *)
(* task that invokes camera_frame_cb, the USB task that invokes            *)
(* stream_state_changed_cb, and the HTTP tasks that call esp_camera_fb_get *)
(* and esp_camera_fb_return.  They share the event group s_evt_handle, the *)
(* slot s_fb and the s_spk_* / s_mic_* globals.  A program counter value   *)
(* "lNNN" is line NNN of main.c; "lNNN_blocked" is a task suspended inside *)
(* the xEventGroupWaitBits call of that line.                              *)
(***************************************************************************)
EXTENDS Integers, Sequences, FiniteSets, TLC

(* ------------------------------ bounds -------------------------------- *)
\* HTTP tasks that may call esp_camera_fb_get
NumConsumers == 2
\* frame->sequence is counted modulo MaxSeq
MaxSeq == 3
\* connect / disconnect events delivered to stream_state_changed_cb
MaxEvents == 2
\* entries of a device-reported audio format list
MaxListLen == 2
\* byte length of wave_array_32000_16_1 (s_buffer_size)
s_buffer_size == 70000

(* ------------------------- program constants -------------------------- *)
BIT0_FRAME_START == 1
BIT1_NEW_FRAME_START == 2
BIT2_NEW_FRAME_END == 4
BIT3_SPK_START == 8
BIT4_SPK_RESET == 16
\* source material: 32000 Hz, 16 bit, one channel
SRC_FREQ == 32000
SRC_BITS == 16
buffer_ms == 400

Consumers == 1..NumConsumers

VARIABLES
    s_evt_handle,   \* the event group's bits, a subset of {BIT0..BIT4}
    aborted,        \* assert(0) / ESP_ERROR_CHECK has aborted the process
    \* ---- app_main
    main_pc,
    httpd_started,  \* app_httpd_main() has run: the HTTP tasks exist
    streaming,      \* usb_streaming_start() has succeeded
    cfg_failed,     \* some start-up collaborator call returned non-success
    \* ---- video
    s_fb,           \* the camera_fb_t slot
    seq,            \* the capture driver's next frame->sequence
    cb_pc,          \* camera_frame_cb
    cb_frame,       \* its uvc_frame_t argument
    cons_pc,        \* per HTTP task: esp_camera_fb_get / esp_camera_fb_return
    cons_fb,        \* per HTTP task: the slot fields it last read
    \* ---- stream_state_changed_cb
    usb_pc,
    usb_sel,        \* spk_frame_list[frame_index] of the event being handled
    usb_old,        \* the s_spk_* values when the handler was entered
    usb_resets,     \* xEventGroupSetBits(BIT4_SPK_RESET) calls of this event
    frame_size,     \* the handler's frame_size after the microphone query of line
                    \* 222; line 251 overwrites it, and from there the handler's
                    \* position (l265 / l288) tells whether it is zero
    evt_count,      \* events delivered so far
    connected,      \* the last event delivered was STREAM_CONNECTED
    s_mic_samples_frequence, s_mic_ch_num, s_mic_bit_resolution,
    s_spk_samples_frequence, s_spk_ch_num, s_spk_bit_resolution,
    \* ---- app_main: the locals of the playback loop
    freq_offsite_step, downsampling_bits, buffer_size, offset_size,
    t_bits,         \* line 428: s_spk_bit_resolution as read for buffer_size
    s_buffer,       \* read cursor, in uint16_t elements from wave_array_32000_16_1
    d_buffer,       \* what the fill loop of lines 447-449 stored
    \* ---- the speaker sink
    spk_last_write, \* the last chunk written in this pass of the playback block
    reset_iters,    \* loop iterations (chunk or idle) run with BIT4_SPK_RESET set
    vol_failed      \* a CTRL_UAC_VOLUME control of lines 410-411 has just failed

videoVars == <<s_fb, seq, cb_pc, cb_frame, cons_pc, cons_fb>>
startVars == <<httpd_started, streaming, cfg_failed>>
usbVars == <<usb_pc, usb_sel, usb_old, usb_resets, frame_size, evt_count, connected>>
micVars == <<s_mic_samples_frequence, s_mic_ch_num, s_mic_bit_resolution>>
spkVars == <<s_spk_samples_frequence, s_spk_ch_num, s_spk_bit_resolution>>
mainLocals ==
    <<freq_offsite_step, downsampling_bits, buffer_size, offset_size, t_bits,
      s_buffer, d_buffer>>
sinkVars == <<spk_last_write, reset_iters, vol_failed>>
audioVars == <<usbVars, micVars, spkVars, mainLocals, sinkVars>>
vars == <<s_evt_handle, aborted, main_pc, startVars, videoVars, audioVars>>

(* --------------------------- the event group -------------------------- *)
\* xEventGroupSetBits(s_evt_handle, b): the bits are set, every task blocked
\* in xEventGroupWaitBits whose condition now holds is unblocked, and the
\* bits those tasks wait on with xClearOnExit are cleared afterwards.
AfterSet(b) == s_evt_handle \cup b

CbWoken(b) == cb_pc = "l147_blocked" /\ BIT2_NEW_FRAME_END \in AfterSet(b)

ConsWoken(b) ==
    {c \in Consumers : cons_pc[c] = "l101_blocked" /\ BIT1_NEW_FRAME_START \in AfterSet(b)}

MainWoken(b) ==
    main_pc \in {"l399_blocked", "l404_blocked"} /\ BIT3_SPK_START \in AfterSet(b)

ClearedOnExit(b) ==
    (IF CbWoken(b) THEN {BIT2_NEW_FRAME_END} ELSE {})
    \cup (IF ConsWoken(b) # {} THEN {BIT1_NEW_FRAME_START} ELSE {})
    \cup (IF MainWoken(b) /\ main_pc = "l404_blocked" THEN {BIT3_SPK_START} ELSE {})

FlagsAfterSet(b) == AfterSet(b) \ ClearedOnExit(b)

CbPcAfterSet(b) == IF CbWoken(b) THEN "l148" ELSE cb_pc

ConsPcAfterSet(b) ==
    [c \in Consumers |-> IF c \in ConsWoken(b) THEN "l102" ELSE cons_pc[c]]

MainPcAfterSet(b) ==
    IF ~MainWoken(b) THEN main_pc
    ELSE IF main_pc = "l399_blocked" THEN "l404" ELSE "l407"

(* ------------------------------- video -------------------------------- *)
ZeroFb ==
    [buf |-> "NULL", len |-> 0, width |-> 0, height |-> 0,
     format |-> "PIXFORMAT_0", tv_sec |-> 0]

NoFrame ==
    [frame_format |-> "NONE", sequence |-> 0, width |-> 0, height |-> 0,
     data_bytes |-> 0, data |-> "NULL"]

FrameFormats == {"UVC_FRAME_FORMAT_MJPEG", "UVC_FRAME_FORMAT_YUYV"}
FrameBytes == {1000}

\* The capture task calls camera_frame_cb(frame, NULL) for the next frame.
DriverInvoke ==
    /\ ~aborted /\ streaming /\ cb_pc = "idle"
    /\ \E f \in FrameFormats, n \in FrameBytes :
          cb_frame' = [frame_format |-> f, sequence |-> seq, width |-> 640,
                       height |-> 480, data_bytes |-> n, data |-> "frame_buffer"]
    /\ seq' = (seq % MaxSeq) + 1
    /\ cb_pc' = "l127"
    /\ UNCHANGED <<s_evt_handle, aborted, main_pc, startVars, audioVars, s_fb, cons_pc, cons_fb>>

\* Cb127 without the early return
Cb127_NoCheck ==
    /\ ~aborted /\ cb_pc = "l127"
    /\ cb_pc' = "l131"
    /\ UNCHANGED <<s_evt_handle, aborted, main_pc, startVars, audioVars, s_fb, seq, cb_frame,
                   cons_pc, cons_fb>>

\* if (!(xEventGroupGetBits(s_evt_handle) & BIT0_FRAME_START)) return;
Cb127 ==
    /\ ~aborted /\ cb_pc = "l127"
    /\ cb_pc' = IF BIT0_FRAME_START \in s_evt_handle THEN "l131" ELSE "idle"
    /\ UNCHANGED <<s_evt_handle, aborted, main_pc, startVars, audioVars, s_fb, seq, cb_frame,
                   cons_pc, cons_fb>>

\* Cb131 with the default case only logging: the callback returns
Cb131_NoAssert ==
    /\ ~aborted /\ cb_pc = "l131"
    /\ cb_pc' = IF cb_frame.frame_format = "UVC_FRAME_FORMAT_MJPEG" THEN "l134" ELSE "idle"
    /\ UNCHANGED <<s_evt_handle, aborted, main_pc, startVars, audioVars, s_fb, seq, cb_frame,
                   cons_pc, cons_fb>>

\* switch (frame->frame_format): the default case is assert(0)
Cb131 ==
    /\ ~aborted /\ cb_pc = "l131"
    /\ IF cb_frame.frame_format = "UVC_FRAME_FORMAT_MJPEG"
          THEN cb_pc' = "l134" /\ aborted' = aborted
          ELSE cb_pc' = "l152" /\ aborted' = TRUE
    /\ UNCHANGED <<s_evt_handle, main_pc, startVars, audioVars, s_fb, seq, cb_frame, cons_pc, cons_fb>>

\* one assignment to a field of s_fb
CbStore(at, nxt, fld, val) ==
    /\ ~aborted /\ cb_pc = at
    /\ s_fb' = [s_fb EXCEPT ![fld] = val]
    /\ cb_pc' = nxt
    /\ UNCHANGED <<s_evt_handle, aborted, main_pc, startVars, audioVars, seq, cb_frame, cons_pc, cons_fb>>

Cb134 == CbStore("l134", "l135", "buf", cb_frame.data)
Cb135 == CbStore("l135", "l136", "len", cb_frame.data_bytes)
Cb136 == CbStore("l136", "l137", "width", cb_frame.width)
Cb137 == CbStore("l137", "l138", "height", cb_frame.height)
Cb138 == CbStore("l138", "l139", "buf", cb_frame.data)
Cb139 == CbStore("l139", "l140", "format", "PIXFORMAT_JPEG")
Cb140 == CbStore("l140", "l143", "tv_sec", cb_frame.sequence)

\* xEventGroupSetBits(s_evt_handle, BIT1_NEW_FRAME_START);
Cb143 ==
    /\ ~aborted /\ cb_pc = "l143"
    /\ s_evt_handle' = FlagsAfterSet({BIT1_NEW_FRAME_START})
    /\ cons_pc' = ConsPcAfterSet({BIT1_NEW_FRAME_START})
    /\ main_pc' = MainPcAfterSet({BIT1_NEW_FRAME_START})
    /\ cb_pc' = "l147"
    /\ UNCHANGED <<aborted, startVars, audioVars, s_fb, seq, cb_frame, cons_fb>>

\* Cb147 with xClearOnExit false: a bit already set is left set
Cb147_NoClear ==
    /\ ~aborted /\ cb_pc = "l147"
    /\ s_evt_handle' = s_evt_handle
    /\ cb_pc' = IF BIT2_NEW_FRAME_END \in s_evt_handle THEN "l148" ELSE "l147_blocked"
    /\ UNCHANGED <<aborted, main_pc, startVars, audioVars, s_fb, seq, cb_frame, cons_pc, cons_fb>>

\* xEventGroupWaitBits(s_evt_handle, BIT2_NEW_FRAME_END, true, true, portMAX_DELAY);
Cb147 ==
    /\ ~aborted /\ cb_pc = "l147"
    /\ IF BIT2_NEW_FRAME_END \in s_evt_handle
          THEN /\ s_evt_handle' = s_evt_handle \ {BIT2_NEW_FRAME_END}
               /\ cb_pc' = "l148"
          ELSE /\ s_evt_handle' = s_evt_handle
               /\ cb_pc' = "l147_blocked"
    /\ UNCHANGED <<aborted, main_pc, startVars, audioVars, s_fb, seq, cb_frame, cons_pc, cons_fb>>

\* break; and the return to the capture task, which reclaims frame->data
Cb148 ==
    /\ ~aborted /\ cb_pc = "l148"
    /\ cb_pc' = "idle"
    /\ UNCHANGED <<s_evt_handle, aborted, main_pc, startVars, audioVars, s_fb, seq, cb_frame,
                   cons_pc, cons_fb>>

\* esp_camera_fb_get(): xEventGroupSetBits(s_evt_handle, BIT0_FRAME_START);
FbGet99(c) ==
    /\ ~aborted /\ httpd_started /\ cons_pc[c] = "idle"
    /\ s_evt_handle' = FlagsAfterSet({BIT0_FRAME_START})
    /\ cb_pc' = CbPcAfterSet({BIT0_FRAME_START})
    /\ main_pc' = MainPcAfterSet({BIT0_FRAME_START})
    /\ cons_pc' = [ConsPcAfterSet({BIT0_FRAME_START}) EXCEPT ![c] = "l101"]
    /\ UNCHANGED <<aborted, startVars, audioVars, s_fb, seq, cb_frame, cons_fb>>

\* xEventGroupWaitBits(s_evt_handle, BIT1_NEW_FRAME_START, true, true, portMAX_DELAY);
FbGet101(c) ==
    /\ ~aborted /\ cons_pc[c] = "l101"
    /\ IF BIT1_NEW_FRAME_START \in s_evt_handle
          THEN /\ s_evt_handle' = s_evt_handle \ {BIT1_NEW_FRAME_START}
               /\ cons_pc' = [cons_pc EXCEPT ![c] = "l102"]
          ELSE /\ s_evt_handle' = s_evt_handle
               /\ cons_pc' = [cons_pc EXCEPT ![c] = "l101_blocked"]
    /\ UNCHANGED <<aborted, main_pc, startVars, audioVars, s_fb, seq, cb_pc, cb_frame, cons_fb>>

\* return &s_fb; the caller then reads the slot's fields through the pointer
FbGet102(c) ==
    /\ ~aborted /\ cons_pc[c] = "l102"
    /\ cons_fb' = [cons_fb EXCEPT ![c] = s_fb]
    /\ cons_pc' = [cons_pc EXCEPT ![c] = "l112"]
    /\ UNCHANGED <<s_evt_handle, aborted, main_pc, startVars, audioVars, s_fb, seq, cb_pc, cb_frame>>

\* FbReturn112 without the xEventGroupSetBits call
FbReturn112_NoSet(c) ==
    /\ ~aborted /\ cons_pc[c] = "l112"
    /\ cons_pc' = [cons_pc EXCEPT ![c] = "idle"]
    /\ UNCHANGED <<s_evt_handle, aborted, main_pc, startVars, audioVars, s_fb, seq, cb_pc,
                   cb_frame, cons_fb>>

\* esp_camera_fb_return(fb): xEventGroupSetBits(s_evt_handle, BIT2_NEW_FRAME_END);
FbReturn112(c) ==
    /\ ~aborted /\ cons_pc[c] = "l112"
    /\ s_evt_handle' = FlagsAfterSet({BIT2_NEW_FRAME_END})
    /\ cb_pc' = CbPcAfterSet({BIT2_NEW_FRAME_END})
    /\ main_pc' = MainPcAfterSet({BIT2_NEW_FRAME_END})
    /\ cons_pc' = [ConsPcAfterSet({BIT2_NEW_FRAME_END}) EXCEPT ![c] = "idle"]
    /\ UNCHANGED <<aborted, startVars, audioVars, s_fb, seq, cb_frame, cons_fb>>

(* ------------------------- app_main: start-up -------------------------- *)
Status == {"ESP_OK", "ESP_FAIL"}

\* s_evt_handle = xEventGroupCreate(); assert(0) when it is NULL
Main322 ==
    /\ ~aborted /\ main_pc = "l322"
    /\ \E created \in BOOLEAN :
          IF created THEN main_pc' = "l331" /\ aborted' = aborted
                     ELSE main_pc' = "l325" /\ aborted' = TRUE
    /\ UNCHANGED <<s_evt_handle, startVars, videoVars, audioVars>>

\* app_wifi_main(); app_httpd_main(); the three malloc()s, each asserted
Main331 ==
    /\ ~aborted /\ main_pc = "l331"
    /\ httpd_started' = TRUE
    /\ \E allocated \in BOOLEAN :
          IF allocated THEN main_pc' = "l360" /\ aborted' = aborted
                       ELSE main_pc' = "l337" /\ aborted' = TRUE
    /\ UNCHANGED <<s_evt_handle, streaming, cfg_failed, videoVars, audioVars>>

\* ret = uvc_streaming_config(&uvc_config); a failure is logged
Main360 ==
    /\ ~aborted /\ main_pc = "l360"
    /\ \E ret \in Status : cfg_failed' = (cfg_failed \/ ret # "ESP_OK")
    /\ main_pc' = "l382"
    /\ UNCHANGED <<s_evt_handle, aborted, httpd_started, streaming, videoVars, audioVars>>

\* ret = uac_streaming_config(&uac_config); a failure is logged
Main382 ==
    /\ ~aborted /\ main_pc = "l382"
    /\ \E ret \in Status : cfg_failed' = (cfg_failed \/ ret # "ESP_OK")
    /\ main_pc' = "l390"
    /\ UNCHANGED <<s_evt_handle, aborted, httpd_started, streaming, videoVars, audioVars>>

\* ESP_ERROR_CHECK(usb_streaming_state_register(&stream_state_changed_cb, NULL));
Main390 ==
    /\ ~aborted /\ main_pc = "l390"
    /\ \E ret \in Status :
          IF ret = "ESP_OK"
             THEN main_pc' = "l393" /\ aborted' = aborted /\ cfg_failed' = cfg_failed
             ELSE main_pc' = "l390" /\ aborted' = TRUE /\ cfg_failed' = TRUE
    /\ UNCHANGED <<s_evt_handle, httpd_started, streaming, videoVars, audioVars>>

\* ESP_ERROR_CHECK(usb_streaming_start());
Main393 ==
    /\ ~aborted /\ main_pc = "l393"
    /\ \E ret \in Status :
          IF ret = "ESP_OK"
             THEN /\ main_pc' = "l396" /\ aborted' = aborted
                  /\ cfg_failed' = cfg_failed /\ streaming' = TRUE
             ELSE /\ main_pc' = "l393" /\ aborted' = TRUE
                  /\ cfg_failed' = TRUE /\ streaming' = streaming
    /\ UNCHANGED <<s_evt_handle, httpd_started, videoVars, audioVars>>

\* ESP_ERROR_CHECK(usb_streaming_connect_wait(portMAX_DELAY));
Main396 ==
    /\ ~aborted /\ main_pc = "l396"
    /\ \/ /\ connected
          /\ main_pc' = "l399" /\ aborted' = aborted /\ cfg_failed' = cfg_failed
       \/ /\ main_pc' = "l396" /\ aborted' = TRUE /\ cfg_failed' = TRUE
    /\ UNCHANGED <<s_evt_handle, httpd_started, streaming, videoVars, audioVars>>

(* ---------------------- stream_state_changed_cb ----------------------- *)
Fmt(ch, bits, freq) ==
    [ch_num |-> ch, bit_resolution |-> bits, samples_frequence |-> freq]

ZeroFmt == Fmt(0, 0, 0)

SpkFormats == {Fmt(1, 16, 16000), Fmt(1, 8, 8000), Fmt(2, 16, 16000), Fmt(1, 16, 32000)}
MicFormats == {Fmt(1, 16, 16000)}

\* the format lists uac_frame_size_list_get can report, frame_size = Len(list)
Lists(F) == UNION {[1..n -> F] : n \in 0..MaxListLen}

\* case STREAM_CONNECTED, lines 198-248: the microphone list; a non-empty one
\* stores mic_frame_list[frame_index] into s_mic_*
UsbConnected ==
    /\ ~aborted /\ streaming /\ usb_pc = "idle" /\ evt_count < MaxEvents
    /\ \E mic_frame_list \in Lists(MicFormats) :
          /\ frame_size' = Len(mic_frame_list)
          /\ IF Len(mic_frame_list) # 0
                THEN \E frame_index \in 0..(Len(mic_frame_list) - 1) :
                        /\ s_mic_samples_frequence' = mic_frame_list[frame_index + 1].samples_frequence
                        /\ s_mic_ch_num' = mic_frame_list[frame_index + 1].ch_num
                        /\ s_mic_bit_resolution' = mic_frame_list[frame_index + 1].bit_resolution
                ELSE UNCHANGED micVars
    /\ usb_pc' = "l251"
    /\ evt_count' = evt_count + 1
    /\ connected' = TRUE
    /\ usb_old' = Fmt(s_spk_ch_num, s_spk_bit_resolution, s_spk_samples_frequence)
    /\ usb_resets' = 0
    /\ UNCHANGED <<s_evt_handle, aborted, main_pc, startVars, videoVars, usb_sel,
                   spkVars, mainLocals, sinkVars>>

\* lines 251-252 and 287-292: the speaker list; an empty one is only logged
Usb251 ==
    /\ ~aborted /\ usb_pc = "l251"
    /\ \E spk_frame_list \in Lists(SpkFormats) :
          IF Len(spk_frame_list) # 0
             THEN \E frame_index \in 0..(Len(spk_frame_list) - 1) :
                     /\ usb_sel' = spk_frame_list[frame_index + 1]
                     /\ usb_pc' = "l265"
             ELSE usb_sel' = usb_sel /\ usb_pc' = "l288"
    /\ frame_size' = 0
    /\ UNCHANGED <<s_evt_handle, aborted, main_pc, startVars, videoVars, usb_old,
                   usb_resets, evt_count, connected, micVars, spkVars, mainLocals, sinkVars>>

\* Usb288 also calling xEventGroupSetBits(s_evt_handle, BIT3_SPK_START)
Usb288_SetsStart ==
    /\ ~aborted /\ usb_pc = "l288"
    /\ s_evt_handle' = FlagsAfterSet({BIT3_SPK_START})
    /\ cb_pc' = CbPcAfterSet({BIT3_SPK_START})
    /\ cons_pc' = ConsPcAfterSet({BIT3_SPK_START})
    /\ main_pc' = MainPcAfterSet({BIT3_SPK_START})
    /\ usb_pc' = "idle"
    /\ usb_sel' = ZeroFmt /\ usb_old' = ZeroFmt /\ usb_resets' = 0
    /\ UNCHANGED <<aborted, startVars, s_fb, seq, cb_frame, cons_fb, frame_size, evt_count,
                   connected, micVars, spkVars, mainLocals, sinkVars>>

\* line 288: the warning for an empty speaker list; the handler returns
Usb288 ==
    /\ ~aborted /\ usb_pc = "l288"
    /\ usb_pc' = "idle"
    /\ usb_sel' = ZeroFmt /\ usb_old' = ZeroFmt /\ usb_resets' = 0
    /\ UNCHANGED <<s_evt_handle, aborted, main_pc, startVars, videoVars, frame_size, evt_count,
                   connected, micVars, spkVars, mainLocals, sinkVars>>

\* lines 265-268: the comparison with the stored descriptor
SpkFormatDiffers ==
    \/ s_spk_samples_frequence # usb_sel.samples_frequence
    \/ s_spk_ch_num # usb_sel.ch_num
    \/ s_spk_bit_resolution # usb_sel.bit_resolution

\* line 268 without its test: the reset is asserted on every difference
SpkResetNeeded_Always == TRUE

\* line 268: if (s_spk_samples_frequence)
SpkResetNeeded == s_spk_samples_frequence # 0

Usb265 ==
    /\ ~aborted /\ usb_pc = "l265"
    /\ usb_pc' = IF SpkFormatDiffers
                    THEN (IF SpkResetNeeded THEN "l270" ELSE "l273")
                    ELSE "l279"
    /\ UNCHANGED <<s_evt_handle, aborted, main_pc, startVars, videoVars, usb_sel, usb_old,
                   usb_resets, frame_size, evt_count, connected, micVars, spkVars, mainLocals, sinkVars>>

\* xEventGroupSetBits(s_evt_handle, BIT4_SPK_RESET);
Usb270 ==
    /\ ~aborted /\ usb_pc = "l270"
    /\ s_evt_handle' = FlagsAfterSet({BIT4_SPK_RESET})
    /\ cb_pc' = CbPcAfterSet({BIT4_SPK_RESET})
    /\ cons_pc' = ConsPcAfterSet({BIT4_SPK_RESET})
    /\ main_pc' = MainPcAfterSet({BIT4_SPK_RESET})
    /\ usb_pc' = "l273"
    /\ usb_resets' = usb_resets + 1
    /\ reset_iters' = 0
    /\ UNCHANGED <<aborted, startVars, s_fb, seq, cb_frame, cons_fb, usb_sel, usb_old,
                   frame_size, evt_count, connected, micVars, spkVars, mainLocals,
                   spk_last_write, vol_failed>>

\* s_spk_samples_frequence = spk_frame_list[frame_index].samples_frequence;
Usb273 ==
    /\ ~aborted /\ usb_pc = "l273"
    /\ s_spk_samples_frequence' = usb_sel.samples_frequence
    /\ usb_pc' = "l274"
    /\ UNCHANGED <<s_evt_handle, aborted, main_pc, startVars, videoVars, usb_sel, usb_old,
                   usb_resets, frame_size, evt_count, connected, micVars, s_spk_ch_num,
                   s_spk_bit_resolution, mainLocals, sinkVars>>

\* s_spk_ch_num = spk_frame_list[frame_index].ch_num;
Usb274 ==
    /\ ~aborted /\ usb_pc = "l274"
    /\ s_spk_ch_num' = usb_sel.ch_num
    /\ usb_pc' = "l275"
    /\ UNCHANGED <<s_evt_handle, aborted, main_pc, startVars, videoVars, usb_sel, usb_old,
                   usb_resets, frame_size, evt_count, connected, micVars, s_spk_samples_frequence,
                   s_spk_bit_resolution, mainLocals, sinkVars>>

\* s_spk_bit_resolution = spk_frame_list[frame_index].bit_resolution;
Usb275 ==
    /\ ~aborted /\ usb_pc = "l275"
    /\ s_spk_bit_resolution' = usb_sel.bit_resolution
    /\ usb_pc' = "l279"
    /\ UNCHANGED <<s_evt_handle, aborted, main_pc, startVars, videoVars, usb_sel, usb_old,
                   usb_resets, frame_size, evt_count, connected, micVars, s_spk_samples_frequence,
                   s_spk_ch_num, mainLocals, sinkVars>>

\* xEventGroupSetBits(s_evt_handle, BIT3_SPK_START); and the handler returns
Usb279 ==
    /\ ~aborted /\ usb_pc = "l279"
    /\ s_evt_handle' = FlagsAfterSet({BIT3_SPK_START})
    /\ cb_pc' = CbPcAfterSet({BIT3_SPK_START})
    /\ cons_pc' = ConsPcAfterSet({BIT3_SPK_START})
    /\ main_pc' = MainPcAfterSet({BIT3_SPK_START})
    /\ usb_pc' = "idle"
    /\ usb_sel' = ZeroFmt /\ usb_old' = ZeroFmt /\ usb_resets' = 0
    /\ UNCHANGED <<aborted, startVars, s_fb, seq, cb_frame, cons_fb, frame_size, evt_count, connected,
                   micVars, spkVars, mainLocals, sinkVars>>

\* case STREAM_DISCONNECTED, lines 294-296: a log line
UsbDisconnected ==
    /\ ~aborted /\ streaming /\ usb_pc = "idle" /\ evt_count < MaxEvents
    /\ connected
    /\ connected' = FALSE
    /\ evt_count' = evt_count + 1
    /\ UNCHANGED <<s_evt_handle, aborted, main_pc, startVars, videoVars, usb_pc, usb_sel,
                   usb_old, usb_resets, frame_size, micVars, spkVars, mainLocals, sinkVars>>

(* ---------------------- app_main: playback loop ----------------------- *)
\* calloc(1, buffer_size): every byte 0
ZeroFill == [cursor |-> 0, step |-> 0, shift |-> 0, n |-> 0, oob |-> 0]

NoChunk == [buf |-> ZeroFill, size |-> 0]

\* xEventGroupWaitBits(s_evt_handle, BIT3_SPK_START, false, false, portMAX_DELAY);
Main399 ==
    /\ ~aborted /\ main_pc = "l399"
    /\ main_pc' = IF BIT3_SPK_START \in s_evt_handle THEN "l404" ELSE "l399_blocked"
    /\ UNCHANGED <<s_evt_handle, aborted, startVars, videoVars, audioVars>>

\* xEventGroupWaitBits(s_evt_handle, BIT3_SPK_START, true, false, portMAX_DELAY);
Main404 ==
    /\ ~aborted /\ main_pc = "l404"
    /\ IF BIT3_SPK_START \in s_evt_handle
          THEN /\ s_evt_handle' = s_evt_handle \ {BIT3_SPK_START}
               /\ main_pc' = "l407"
          ELSE /\ s_evt_handle' = s_evt_handle
               /\ main_pc' = "l404_blocked"
    /\ UNCHANGED <<aborted, startVars, videoVars, audioVars>>

\* ESP_ERROR_CHECK(usb_streaming_control(STREAM_UAC_SPK, CTRL_RESUME, NULL));
Main407 ==
    /\ ~aborted /\ main_pc = "l407"
    /\ \E ret \in Status :
          IF ret = "ESP_OK"
             THEN main_pc' = "l410" /\ aborted' = aborted
             ELSE main_pc' = "l407" /\ aborted' = TRUE
    /\ UNCHANGED <<s_evt_handle, startVars, videoVars, usbVars, micVars, spkVars,
                   mainLocals, sinkVars>>

\* Main410 with the two controls wrapped in ESP_ERROR_CHECK
Main410_Checked ==
    /\ ~aborted /\ main_pc = "l410"
    /\ \E spk_ret \in Status, mic_ret \in Status :
          /\ vol_failed' = (spk_ret # "ESP_OK" \/ mic_ret # "ESP_OK")
          /\ aborted' = vol_failed'
          /\ main_pc' = IF vol_failed' THEN "l410" ELSE "l422"
    /\ UNCHANGED <<s_evt_handle, startVars, videoVars, usbVars, micVars, spkVars,
                   mainLocals, spk_last_write, reset_iters>>

\* the two CTRL_UAC_VOLUME controls; their status is not looked at
Main410 ==
    /\ ~aborted /\ main_pc = "l410"
    /\ \E spk_ret \in Status, mic_ret \in Status :
          vol_failed' = (spk_ret # "ESP_OK" \/ mic_ret # "ESP_OK")
    /\ main_pc' = "l422"
    /\ UNCHANGED <<s_evt_handle, aborted, startVars, videoVars, usbVars, micVars, spkVars,
                   mainLocals, spk_last_write, reset_iters>>

\* int freq_offsite_step = 32000 / s_spk_samples_frequence;
Main422 ==
    /\ ~aborted /\ main_pc = "l422"
    /\ IF s_spk_samples_frequence = 0
          THEN /\ aborted' = TRUE /\ main_pc' = "l422"
               /\ freq_offsite_step' = freq_offsite_step
          ELSE /\ aborted' = aborted /\ main_pc' = "l424"
               /\ freq_offsite_step' = SRC_FREQ \div s_spk_samples_frequence
    /\ vol_failed' = FALSE
    /\ UNCHANGED <<s_evt_handle, startVars, videoVars, usbVars, micVars, spkVars,
                   spk_last_write, reset_iters, downsampling_bits, buffer_size, offset_size, t_bits, s_buffer, d_buffer>>

\* int downsampling_bits = 16 - s_spk_bit_resolution;
Main424 ==
    /\ ~aborted /\ main_pc = "l424"
    /\ downsampling_bits' = SRC_BITS - s_spk_bit_resolution
    /\ main_pc' = "l428"
    /\ UNCHANGED <<s_evt_handle, aborted, startVars, videoVars, usbVars, micVars, spkVars,
                   sinkVars, freq_offsite_step, buffer_size, offset_size, t_bits, s_buffer,
                   d_buffer>>

\* line 428, first operand: s_spk_bit_resolution / 8
Main428 ==
    /\ ~aborted /\ main_pc = "l428"
    /\ t_bits' = s_spk_bit_resolution
    /\ main_pc' = "l428_freq"
    /\ UNCHANGED <<s_evt_handle, aborted, startVars, videoVars, usbVars, micVars, spkVars,
                   sinkVars, freq_offsite_step, downsampling_bits, buffer_size, offset_size,
                   s_buffer, d_buffer>>

BufferSize(bits, freq) == buffer_ms * (bits \div 8) * (freq \div 1000)

\* line 428, second operand: s_spk_samples_frequence / 1000; lines 431-432:
\* s_buffer at the start of the wave array, d_buffer = calloc(1, buffer_size)
Main428Freq ==
    /\ ~aborted /\ main_pc = "l428_freq"
    /\ buffer_size' = BufferSize(t_bits, s_spk_samples_frequence)
    /\ s_buffer' = 0
    /\ d_buffer' = ZeroFill
    /\ main_pc' = "l434"
    /\ UNCHANGED <<s_evt_handle, aborted, startVars, videoVars, usbVars, micVars, spkVars,
                   sinkVars, freq_offsite_step, downsampling_bits, offset_size, t_bits>>

\* size_t offset_size = buffer_size / (s_spk_bit_resolution / 8);
Main434 ==
    /\ ~aborted /\ main_pc = "l434"
    /\ IF s_spk_bit_resolution \div 8 = 0
          THEN aborted' = TRUE /\ main_pc' = "l434" /\ offset_size' = offset_size
          ELSE /\ aborted' = aborted /\ main_pc' = "l439"
               /\ offset_size' = buffer_size \div (s_spk_bit_resolution \div 8)
    /\ UNCHANGED <<s_evt_handle, startVars, videoVars, usbVars, micVars, spkVars, sinkVars,
                   freq_offsite_step, downsampling_bits, buffer_size, t_bits, s_buffer,
                   d_buffer>>

\* (uint32_t)(s_buffer + offset_size) >= (uint32_t)(wave_array_32000_16_1 + s_buffer_size):
\* s_buffer counts uint16_t elements, s_buffer_size counts bytes
EndOfWave == 2 * (s_buffer + offset_size) >= s_buffer_size

\* line 439; on the true branch line 441 resets s_buffer
Main439 ==
    /\ ~aborted /\ main_pc = "l439"
    /\ IF EndOfWave THEN s_buffer' = 0 /\ main_pc' = "l443"
                    ELSE s_buffer' = s_buffer /\ main_pc' = "l447"
    /\ UNCHANGED <<s_evt_handle, aborted, startVars, videoVars, usbVars, micVars, spkVars,
                   sinkVars, freq_offsite_step, downsampling_bits, buffer_size, offset_size,
                   t_bits, d_buffer>>

\* vTaskDelay(pdMS_TO_TICKS(1000));
Main443 ==
    /\ ~aborted /\ main_pc = "l443"
    /\ main_pc' = "l456"
    /\ reset_iters' = IF BIT4_SPK_RESET \in s_evt_handle /\ reset_iters < 2
                         THEN reset_iters + 1 ELSE reset_iters
    /\ UNCHANGED <<s_evt_handle, aborted, startVars, videoVars, usbVars, micVars, spkVars,
                   mainLocals, spk_last_write, vol_failed>>

\* the bytes a read through s_buffer can return past the end of the array
OobBytes == {0, 255}

\* whether the fill loop reads past the end of wave_array_32000_16_1
FillReadsPastEnd ==
    offset_size > 0
    /\ 2 * (s_buffer + (offset_size - 1) * freq_offsite_step) + 1 >= s_buffer_size

\* whether the fill loop stores past the end of the calloc(1, buffer_size)
\* block: it stores offset_size elements of sizeof(uint16_t) bytes
FillOverrunsBuffer == 2 * offset_size > buffer_size

\* lines 447-449: d_buffer[i] = *(s_buffer + i * freq_offsite_step) >> downsampling_bits
\* a store past the end of the heap block either goes unnoticed or crashes
Main447 ==
    /\ ~aborted /\ main_pc = "l447"
    /\ \E g \in (IF FillReadsPastEnd THEN OobBytes ELSE {0}) :
          d_buffer' = [cursor |-> s_buffer, step |-> freq_offsite_step,
                       shift |-> downsampling_bits, n |-> offset_size, oob |-> g]
    /\ \E crash \in (IF FillOverrunsBuffer THEN BOOLEAN ELSE {FALSE}) :
          /\ aborted' = crash
          /\ main_pc' = IF crash THEN "l447" ELSE "l451"
    /\ UNCHANGED <<s_evt_handle, startVars, videoVars, usbVars, micVars, spkVars,
                   sinkVars, freq_offsite_step, downsampling_bits, buffer_size, offset_size,
                   t_bits, s_buffer>>

\* uac_spk_streaming_write(d_buffer, buffer_size, pdMS_TO_TICKS(1000));
Main451 ==
    /\ ~aborted /\ main_pc = "l451"
    /\ spk_last_write' = [buf |-> d_buffer, size |-> buffer_size]
    /\ reset_iters' = IF BIT4_SPK_RESET \in s_evt_handle /\ reset_iters < 2
                         THEN reset_iters + 1 ELSE reset_iters
    /\ main_pc' = "l452"
    /\ UNCHANGED <<s_evt_handle, aborted, startVars, videoVars, usbVars, micVars, spkVars,
                   mainLocals, vol_failed>>

\* s_buffer += offset_size * freq_offsite_step;
Main452 ==
    /\ ~aborted /\ main_pc = "l452"
    /\ s_buffer' = s_buffer + offset_size * freq_offsite_step
    /\ main_pc' = "l456"
    /\ UNCHANGED <<s_evt_handle, aborted, startVars, videoVars, usbVars, micVars, spkVars,
                   sinkVars, freq_offsite_step, downsampling_bits, buffer_size, offset_size,
                   t_bits, d_buffer>>

\* Main456 without the poll of the event group: the loop never breaks
Main456_NoPoll ==
    /\ ~aborted /\ main_pc = "l456"
    /\ main_pc' = "l439"
    /\ UNCHANGED <<s_evt_handle, aborted, startVars, videoVars, audioVars>>

\* if (xEventGroupGetBits(s_evt_handle) & (BIT4_SPK_RESET | BIT3_SPK_START))
Main456 ==
    /\ ~aborted /\ main_pc = "l456"
    /\ main_pc' = IF s_evt_handle \cap {BIT4_SPK_RESET, BIT3_SPK_START} # {}
                     THEN "l458" ELSE "l439"
    /\ UNCHANGED <<s_evt_handle, aborted, startVars, videoVars, audioVars>>

\* xEventGroupClearBits(s_evt_handle, BIT4_SPK_RESET); break;
Main458 ==
    /\ ~aborted /\ main_pc = "l458"
    /\ s_evt_handle' = s_evt_handle \ {BIT4_SPK_RESET}
    /\ reset_iters' = 0
    /\ main_pc' = "l462"
    /\ UNCHANGED <<aborted, startVars, videoVars, usbVars, micVars, spkVars, mainLocals,
                   spk_last_write, vol_failed>>

\* free(d_buffer); the block's locals go out of scope, the chunk handed to the
\* sink is gone with its buffer, and control is back at the head of the
\* while (1) of line 402
Main462 ==
    /\ ~aborted /\ main_pc = "l462"
    /\ d_buffer' = ZeroFill
    /\ freq_offsite_step' = 0 /\ downsampling_bits' = 0
    /\ buffer_size' = 0 /\ offset_size' = 0 /\ t_bits' = 0 /\ s_buffer' = 0
    /\ spk_last_write' = NoChunk
    /\ main_pc' = "l404"
    /\ UNCHANGED <<s_evt_handle, aborted, startVars, videoVars, usbVars, micVars, spkVars,
                   reset_iters, vol_failed>>

(* ------------------- the bytes of a chunk, as stored ------------------ *)
\* wave_array_32000_16_1[b]
WaveByte(b) == (b * 31 + 7) % 256

\* the byte at wave_array_32000_16_1 + b as a read finds it
SrcByte(b, g) == IF b < s_buffer_size THEN WaveByte(b) ELSE g

\* *(s_buffer + j) for s_buffer at the start of the array: a little-endian uint16_t
SrcSample(j, g) == SrcByte(2 * j, g) + 256 * SrcByte(2 * j + 1, g)

\* d_buffer[i] after the fill loop: a uint16_t store
DElem(d, i) == (SrcSample(d.cursor + i * d.step, d.oob) \div (2 ^ d.shift)) % 65536

\* byte k of the memory at d_buffer after the fill loop
DByte(d, k) ==
    IF k >= 2 * d.n THEN 0
    ELSE IF k % 2 = 0 THEN DElem(d, k \div 2) % 256
    ELSE DElem(d, k \div 2) \div 256

\* byte k of the chunk handed to uac_spk_streaming_write, 0 <= k < w.size
ChunkByte(w, k) == DByte(w.buf, k)

(* --------------------------- specifications --------------------------- *)
Init ==
    /\ s_evt_handle = {}
    /\ aborted = FALSE
    /\ main_pc = "l322"
    /\ httpd_started = FALSE
    /\ streaming = FALSE
    /\ cfg_failed = FALSE
    /\ s_fb = ZeroFb
    /\ seq = 1
    /\ cb_pc = "idle"
    /\ cb_frame = NoFrame
    /\ cons_pc = [c \in Consumers |-> "idle"]
    /\ cons_fb = [c \in Consumers |-> ZeroFb]
    /\ usb_pc = "idle"
    /\ usb_sel = ZeroFmt
    /\ usb_old = ZeroFmt
    /\ usb_resets = 0
    /\ frame_size = 0
    /\ vol_failed = FALSE
    /\ evt_count = 0
    /\ connected = FALSE
    /\ s_mic_samples_frequence = 0 /\ s_mic_ch_num = 0 /\ s_mic_bit_resolution = 0
    /\ s_spk_samples_frequence = 0 /\ s_spk_ch_num = 0 /\ s_spk_bit_resolution = 0
    /\ freq_offsite_step = 0 /\ downsampling_bits = 0
    /\ buffer_size = 0 /\ offset_size = 0 /\ t_bits = 0
    /\ s_buffer = 0
    /\ d_buffer = ZeroFill
    /\ spk_last_write = NoChunk
    /\ reset_iters = 0

StartNext == Main322 \/ Main331 \/ Main360 \/ Main382 \/ Main390 \/ Main393

CbNext ==
    \/ DriverInvoke \/ Cb127 \/ Cb131
    \/ Cb134 \/ Cb135 \/ Cb136 \/ Cb137 \/ Cb138 \/ Cb139 \/ Cb140
    \/ Cb143 \/ Cb147 \/ Cb148

ConsNext(c) == FbGet99(c) \/ FbGet101(c) \/ FbGet102(c) \/ FbReturn112(c)

UsbNext ==
    \/ UsbConnected \/ Usb251 \/ Usb265 \/ Usb270 \/ Usb273 \/ Usb274 \/ Usb275
    \/ Usb279 \/ Usb288 \/ UsbDisconnected

PlayNext ==
    \/ Main396 \/ Main399 \/ Main404 \/ Main407 \/ Main410
    \/ Main422 \/ Main424 \/ Main428 \/ Main428Freq \/ Main434
    \/ Main439 \/ Main443 \/ Main447 \/ Main451 \/ Main452
    \/ Main456 \/ Main458 \/ Main462

Next == StartNext \/ CbNext \/ (\E c \in Consumers : ConsNext(c)) \/ UsbNext \/ PlayNext

Spec == Init /\ [][Next]_vars

\* The frame handoff with a single HTTP task (task 1) calling
\* esp_camera_fb_get / esp_camera_fb_return.
NextOneConsumer == StartNext \/ CbNext \/ ConsNext(1)

SpecOneConsumer == Init /\ [][NextOneConsumer]_vars

\* The frame handoff with every HTTP task calling esp_camera_fb_get /
\* esp_camera_fb_return.
NextVideo == StartNext \/ CbNext \/ (\E c \in Consumers : ConsNext(c))

SpecVideo == Init /\ [][NextVideo]_vars

\* The audio path alone: start-up, the connection events and the playback loop.
NextAudio == StartNext \/ UsbNext \/ PlayNext

SpecAudio == Init /\ [][NextAudio]_vars

\* Weak fairness of every task: the scheduler runs each task that stays
\* ready, frames keep arriving and the HTTP task keeps asking for them.
SpecOneConsumerFair ==
    /\ Init /\ [][NextOneConsumer]_vars
    /\ WF_vars(StartNext) /\ WF_vars(CbNext) /\ WF_vars(ConsNext(1))

\* The handler of an event that has arrived runs to its end, and app_main
\* runs whenever it is ready; events themselves need not arrive.
UsbHandlerNext ==
    \/ Usb251 \/ Usb265 \/ Usb270 \/ Usb273 \/ Usb274 \/ Usb275 \/ Usb279 \/ Usb288

SpecAudioFair ==
    /\ Init /\ [][NextAudio]_vars
    /\ WF_vars(StartNext) /\ WF_vars(PlayNext) /\ WF_vars(UsbHandlerNext)

(* ------------------------------ claims -------------------------------- *)
\* an HTTP task between the return of esp_camera_fb_get and its
\* esp_camera_fb_return
Holding(c) == cons_pc[c] \in {"l102", "l112"}

\* the slot as lines 134-140 fill it from frame f
FrameFb(f) ==
    [buf |-> f.data, len |-> f.data_bytes, width |-> f.width, height |-> f.height,
     format |-> "PIXFORMAT_JPEG", tv_sec |-> f.sequence]

CbPublishing == cb_pc \in {"l134", "l135", "l136", "l137", "l138", "l139", "l140", "l143"}

CbWaiting == cb_pc \in {"l147", "l147_blocked"}

\* C1: with one HTTP task that pairs esp_camera_fb_get with esp_camera_fb_return,
\* while the task holds the slot camera_frame_cb is inside its wait and the slot
\* holds the fields of the frame being handed over, unchanged by any step; the
\* callback fills and publishes a frame only when the previous publication is
\* fully consumed (no holder, BIT1 and BIT2 clear); and its wait ends only after
\* the task has read this very frame and returned it.
C1_Alternation ==
    /\ [](Holding(1) => CbWaiting /\ s_fb = FrameFb(cb_frame))
    /\ [][(Holding(1) /\ Holding(1)') => s_fb' = s_fb]_vars
    /\ [](CbPublishing =>
            /\ ~Holding(1)
            /\ s_evt_handle \cap {BIT1_NEW_FRAME_START, BIT2_NEW_FRAME_END} = {})
    /\ [][(CbWaiting /\ cb_pc' = "l148") =>
            (~Holding(1)' /\ cons_fb'[1] = FrameFb(cb_frame))]_vars

\* C1 witness: the task holds the second published frame while the callback waits
C1_Witness ==
    /\ Holding(1) /\ cb_pc = "l147_blocked"
    /\ s_fb.tv_sec = 2 /\ cons_fb[1].tv_sec = 1

\* C2: while BIT0_FRAME_START has never been set, the callback's check of line
\* 127 returns at once for every format tag, changing neither s_fb nor the
\* event group nor aborting; the slot still holds its initial zeroes, the
\* callback is never past line 127 and neither handoff bit is set.
C2_DropWithoutConsumer ==
    /\ [][(BIT0_FRAME_START \notin s_evt_handle /\ cb_pc = "l127" /\ cb_pc' # "l127") =>
            (cb_pc' = "idle" /\ s_fb' = s_fb /\ s_evt_handle' = s_evt_handle /\ ~aborted')]_vars
    /\ [](BIT0_FRAME_START \notin s_evt_handle =>
            /\ s_fb = ZeroFb
            /\ cb_pc \in {"idle", "l127"}
            /\ s_evt_handle \cap {BIT1_NEW_FRAME_START, BIT2_NEW_FRAME_END} = {})

\* C2 witness: two frames, the second not MJPEG, were dropped with BIT0 clear
C2_Witness ==
    /\ BIT0_FRAME_START \notin s_evt_handle
    /\ cb_pc = "idle" /\ cb_frame.sequence = 2
    /\ cb_frame.frame_format = "UVC_FRAME_FORMAT_YUYV"
    /\ ~aborted /\ s_fb = ZeroFb

\* C5: under fairness, with one HTTP task that keeps calling esp_camera_fb_get
\* and esp_camera_fb_return, a callback that has published a frame returns to
\* the capture task, and a call of esp_camera_fb_get returns (or the process
\* has aborted).
C5_RendezvousReleased ==
    /\ (CbWaiting ~> (cb_pc = "idle" \/ aborted))
    /\ (cons_pc[1] \in {"l101", "l101_blocked"} ~> (cons_pc[1] = "l102" \/ aborted))

\* C5 witness: the callback has returned from its second publication
C5_Witness ==
    /\ cb_pc = "idle" /\ s_fb.tv_sec = 2 /\ cons_fb[1].tv_sec = 2
    /\ cons_pc[1] = "idle" /\ ~aborted

\* the descriptor in s_spk_*
StoredSpk == Fmt(s_spk_ch_num, s_spk_bit_resolution, s_spk_samples_frequence)

\* the handler is treating a descriptor that differs from an established one
SpkChanged == usb_sel # usb_old /\ usb_old.samples_frequence # 0

\* app_main inside the while (1) of line 437
InStreamingLoop ==
    main_pc \in {"l439", "l443", "l447", "l451", "l452", "l456", "l458"}

\* C3: when the handler of a connect event with a non-empty speaker list
\* reaches line 279, it has called xEventGroupSetBits(BIT4_SPK_RESET) exactly
\* once if the active descriptor differs from the one stored at entry and the
\* stored rate was non-zero, and not at all otherwise (first negotiation, or
\* identical descriptor); and BIT4_SPK_RESET is set by no other step.
C3_ResetOncePerChange ==
    /\ [](usb_pc = "l279" => usb_resets = (IF SpkChanged THEN 1 ELSE 0))
    /\ [][(BIT4_SPK_RESET \in s_evt_handle' /\ BIT4_SPK_RESET \notin s_evt_handle) =>
            (usb_pc = "l270" /\ usb_resets' = usb_resets + 1)]_vars

\* C3 witness: a reconnect differing in the channel count alone has asserted
\* the reset once
C3_Witness ==
    /\ usb_pc = "l279" /\ usb_resets = 1
    /\ usb_old = Fmt(1, 16, 16000) /\ usb_sel = Fmt(2, 16, 16000)

\* what lines 422-434 derive from descriptor D
DerivedFrom(w, D) ==
    /\ w.buf.step = SRC_FREQ \div D.samples_frequence
    /\ w.buf.shift = SRC_BITS - D.bit_resolution
    /\ w.size = BufferSize(D.bit_resolution, D.samples_frequence)
    /\ w.buf.n = w.size \div (D.bit_resolution \div 8)

\* C4: under fairness, when a connect event has stored a descriptor different
\* from the established one while app_main is in the streaming loop, app_main
\* reaches the resume control of line 407 again; and once the resume has
\* succeeded with descriptor D stored, a chunk whose step, shift, size and
\* sample count derive from D is written, unless a further event's handler
\* starts, the descriptor is replaced, or the process aborts.
C4_ResumeWithNewFormat ==
    /\ ((usb_pc = "l279" /\ SpkChanged /\ InStreamingLoop) ~> (main_pc = "l407" \/ aborted))
    /\ \A D \in SpkFormats :
          (main_pc = "l410" /\ usb_pc = "idle" /\ StoredSpk = D)
             ~> \/ main_pc = "l452" /\ DerivedFrom(spk_last_write, D) /\ StoredSpk = D
                \/ usb_pc # "idle"
                \/ aborted

\* C4 witness: the format changes from 16000 Hz / 16 bit to 8000 Hz / 8 bit
\* while a chunk derived from the old format has just been written
C4_Witness ==
    /\ usb_pc = "l279" /\ usb_old = Fmt(1, 16, 16000) /\ usb_sel = Fmt(1, 8, 8000)
    /\ main_pc = "l452" /\ DerivedFrom(spk_last_write, usb_old)

\* the source sample at element index j of wave_array_32000_16_1
WaveSample(j) == WaveByte(2 * j) + 256 * WaveByte(2 * j + 1)

InWave(j) == 2 * j + 1 < s_buffer_size

\* C6: a chunk written with shift 8 for a negotiated 8-bit speaker has, at every
\* byte k below its byte size, the top 8 bits of the source sample at
\* cursor + k*step.
C6_TopEightBits ==
    (/\ main_pc = "l452" /\ usb_pc = "idle" /\ evt_count = 1
     /\ s_spk_bit_resolution = 8)
    => /\ downsampling_bits = 8
       /\ \A k \in 0..(spk_last_write.size - 1) :
             LET j == spk_last_write.buf.cursor + k * spk_last_write.buf.step IN
             InWave(j) /\ ChunkByte(spk_last_write, k) = WaveSample(j) \div 256

\* C7: in a session negotiated at 16000 Hz / 16 bit the step is 2 and the shift 0,
\* every output sample i of a written chunk is the source sample at
\* cursor + 2*i, and the cursor then advances by twice the chunk's sample count.
C7_Decimation ==
    (/\ usb_pc = "idle" /\ evt_count = 1
     /\ s_spk_samples_frequence = 16000 /\ s_spk_bit_resolution = 16)
    => /\ InStreamingLoop => freq_offsite_step = 2 /\ downsampling_bits = 0
       /\ main_pc = "l452" =>
             \A i \in 0..(spk_last_write.buf.n - 1) :
                LET j == spk_last_write.buf.cursor + 2 * i IN
                InWave(j) /\ DElem(spk_last_write.buf, i) = WaveSample(j)
       /\ (main_pc = "l456" /\ s_buffer # 0) =>
             s_buffer = spk_last_write.buf.cursor + 2 * spk_last_write.buf.n

\* advancing the cursor by one chunk would pass the end of the source material
WouldPassEnd == 2 * (s_buffer + offset_size * freq_offsite_step) > s_buffer_size

\* the locals of the playback block are the ones lines 422-434 derive from
\* one descriptor of the list
LocalsConsistent ==
    \E D \in SpkFormats :
       /\ freq_offsite_step = SRC_FREQ \div D.samples_frequence
       /\ downsampling_bits = SRC_BITS - D.bit_resolution
       /\ buffer_size = BufferSize(D.bit_resolution, D.samples_frequence)
       /\ offset_size = buffer_size \div (D.bit_resolution \div 8)

\* C8: an iteration of the streaming loop (its locals derived from one
\* descriptor) that starts where advancing the
\* cursor by one chunk would pass the end of the source writes no chunk, resets
\* the cursor to 0 and idles; the chunk written after the idle starts at 0.
C8_CyclicPlayback ==
    /\ [][(main_pc = "l439" /\ main_pc' # "l439" /\ LocalsConsistent /\ WouldPassEnd) =>
            (main_pc' = "l443" /\ s_buffer' = 0 /\ spk_last_write' = spk_last_write)]_vars
    /\ [](main_pc = "l443" => s_buffer = 0)

\* C9: when the handler asserts BIT3_SPK_START for a changed descriptor it has
\* already asserted BIT4_SPK_RESET; with BIT4_SPK_RESET set the streaming loop
\* runs at most one iteration (chunk write or idle gap) before it clears the
\* bit; and, under fairness, app_main then reaches the resume control again.
C9_ResetObservedWithinOneChunk ==
    /\ [](reset_iters <= 1)
    /\ [](usb_pc = "l279" /\ SpkChanged => usb_resets = 1)
    /\ ((BIT4_SPK_RESET \in s_evt_handle /\ InStreamingLoop) ~> (main_pc = "l407" \/ aborted))

\* C10: a poll of line 456 made by the streaming loop while the device is
\* disconnected (the disconnect handler has run) leaves the loop through line
\* 458, so that app_main goes back to the wait of line 404 and writes no chunk.
C10_DisconnectLeavesStreaming ==
    [][(main_pc = "l456" /\ main_pc' # "l456" /\ ~connected /\ usb_pc = "idle") =>
         main_pc' = "l458"]_vars

\* C11: once a collaborator call of the start-up (uvc_streaming_config,
\* uac_streaming_config, usb_streaming_state_register, usb_streaming_start,
\* usb_streaming_connect_wait) has returned a failure, the process has aborted:
\* app_main takes no further step.
C11_ConfigFailureAborts == cfg_failed => aborted

\* C12: with BIT0_FRAME_START set, the switch of line 131 on a frame whose
\* format is not MJPEG aborts at the assert of line 152 without writing s_fb
\* or setting any event bit, and the callback stays there: it never returns.
C12_UnsupportedFormatAborts ==
    /\ [][(cb_pc = "l131" /\ cb_pc' # "l131"
            /\ cb_frame.frame_format # "UVC_FRAME_FORMAT_MJPEG") =>
            (/\ cb_pc' = "l152" /\ aborted'
             /\ s_fb' = s_fb /\ s_evt_handle' = s_evt_handle)]_vars
    /\ [](cb_pc = "l131" => BIT0_FRAME_START \in s_evt_handle)
    /\ [](cb_pc = "l152" => aborted /\ BIT1_NEW_FRAME_START \notin s_evt_handle)
    /\ [][cb_pc = "l152" => cb_pc' = "l152"]_vars

\* C12 witness: a YUYV frame arrived after a frame was handed over, and the
\* process has aborted at line 152 with the slot still holding the earlier frame
C12_Witness ==
    /\ cb_pc = "l152" /\ aborted /\ cb_frame.frame_format = "UVC_FRAME_FORMAT_YUYV"
    /\ cb_frame.sequence = 2 /\ s_fb.tv_sec = 1

\* the two speaker bits of the event group
SpkBits == {BIT3_SPK_START, BIT4_SPK_RESET}

\* C13: the handler of a connect event leaves s_mic_* unchanged when the
\* microphone list is empty; on an empty speaker list (line 288) it has changed
\* neither s_spk_* nor the event group, from entry to return; on a non-empty
\* speaker list it reaches line 279 with spk_frame_list[frame_index] stored in
\* s_spk_* and there sets BIT3_SPK_START (which a task waiting at line 404
\* consumes at once).
C13_EmptyListsLeaveState ==
    /\ [][(usb_pc = "idle" /\ usb_pc' = "l251") =>
            /\ (frame_size' = 0 => UNCHANGED micVars)
            /\ UNCHANGED <<spkVars, s_evt_handle>>]_vars
    /\ [][(usb_pc = "l251" /\ usb_pc' = "l288") => UNCHANGED <<spkVars, s_evt_handle>>]_vars
    /\ [][(usb_pc = "l288" /\ usb_pc' # "l288") =>
            (usb_pc' = "idle" /\ UNCHANGED <<spkVars, s_evt_handle, main_pc>>)]_vars
    /\ [](usb_pc = "l288" => StoredSpk = usb_old /\ usb_resets = 0)
    /\ [][(usb_pc = "l251" /\ usb_pc' # "l251" /\ usb_pc' # "l288") =>
            (usb_pc' = "l265" /\ usb_sel' \in SpkFormats)]_vars
    /\ [][(usb_pc = "l279" /\ usb_pc' # "l279") =>
            /\ StoredSpk = usb_sel /\ StoredSpk' = usb_sel
            /\ \/ BIT3_SPK_START \in s_evt_handle'
               \/ main_pc = "l404_blocked" /\ main_pc' = "l407"]_vars

\* C13 witness: a second connect event with an empty speaker list is at line
\* 288 while the descriptors stored by the first event are still in place
C13_Witness ==
    /\ usb_pc = "l288" /\ evt_count = 2
    /\ StoredSpk = Fmt(1, 8, 8000) /\ usb_old = Fmt(1, 8, 8000)
    /\ s_mic_samples_frequence = 16000

\* C14: a failed CTRL_RESUME at line 407 aborts the process there, with no
\* chunk written in this pass; the step of lines 410-411 goes on to line 422
\* without aborting whatever the two volume controls return; and, under
\* fairness, app_main then enters the streaming loop even when one has failed.
C14_ResumeFatalVolumeIgnored ==
    /\ [][(main_pc = "l407" /\ main_pc' = "l407" /\ aborted' # aborted) =>
            (aborted' /\ spk_last_write' = NoChunk)]_vars
    /\ [](main_pc = "l407" => spk_last_write = NoChunk)
    /\ [][(main_pc = "l410" /\ main_pc' # "l410") => (main_pc' = "l422" /\ ~aborted')]_vars
    /\ [](main_pc = "l410" => ~aborted)
    /\ ((main_pc = "l422" /\ vol_failed) ~> InStreamingLoop)

\* C14 witness: a volume control has failed and app_main is deriving the
\* parameters of the streaming loop
C14_Witness == main_pc = "l422" /\ vol_failed /\ ~aborted

\* the HTTP tasks between the return of esp_camera_fb_get and their
\* esp_camera_fb_return
Holders == {c \in Consumers : Holding(c)}

\* C15: with several HTTP tasks, at most one task at a time is between the
\* return of esp_camera_fb_get and its esp_camera_fb_return (one publication
\* releases one call), and while a task is there camera_frame_cb is inside
\* its wait of line 147.
C15_OneReaderPerFrame ==
    /\ Cardinality(Holders) <= 1
    /\ (Holders # {} => CbWaiting)

\* C16: no step clears BIT0_FRAME_START; once it is set, the check of line 127
\* lets every frame through and an MJPEG frame goes on to be stored and
\* published; and a callback that has published frame f leaves its wait of
\* line 147 only when, after the publication, a task has obtained f through
\* esp_camera_fb_get and called esp_camera_fb_return.
C16_FrameStartSticky ==
    /\ [][(BIT0_FRAME_START \in s_evt_handle) => (BIT0_FRAME_START \in s_evt_handle')]_vars
    /\ [][(cb_pc = "l127" /\ cb_pc' # "l127" /\ BIT0_FRAME_START \in s_evt_handle) =>
            cb_pc' = "l131"]_vars
    /\ [][(cb_pc = "l131" /\ cb_pc' # "l131"
            /\ cb_frame.frame_format = "UVC_FRAME_FORMAT_MJPEG") => cb_pc' = "l134"]_vars
    /\ [][(CbWaiting /\ cb_pc' = "l148") =>
            \E c \in Consumers :
               cons_fb'[c] = FrameFb(cb_frame) /\ cons_pc'[c] \in {"idle", "l101", "l101_blocked"}]_vars

\* C17: app_main is never blocked in the wait of line 404 while no handler is
\* running, that is, with BIT3_SPK_START clear and nothing left that will
\* set it.
C17_NoStall == ~(main_pc = "l404_blocked" /\ usb_pc = "idle")

\* C18: the step, shift, byte size and sample count of every chunk written
\* are the ones lines 422-434 derive from one descriptor of the speaker's list.
C18_OneDescriptorPerChunk ==
    main_pc = "l452" => \E D \in SpkFormats : DerivedFrom(spk_last_write, D)

\* C19: when the fill loop has run, the offset_size elements it stored through
\* the uint16_t pointer d_buffer lie within the buffer_size bytes allocated at
\* line 432.
C19_FillWithinBuffer == main_pc = "l451" => 2 * d_buffer.n <= buffer_size

\* C20: when the check of line 439 has let a chunk be filled with the
\* parameters derived from a descriptor of the list, every index
\* cursor + i*step the fill loop read, for i below the chunk's sample count,
\* is an element of wave_array_32000_16_1.
C20_ReadsInsideSource ==
    (main_pc = "l451" /\ LocalsConsistent) => \A i \in 0..(d_buffer.n - 1) : InWave(d_buffer.cursor + i * d_buffer.step)

=============================================================================
